---- MODULE Spec2Model ----
(***************************************************************************)
(* First-order-logic clause normalisation of DavidAndThings/bot.           *)
(*                                                                         *)
(* Two files hold the code.  src/src/fol.py is the library: the clause     *)
(* classes, ClauseOperation.run with its three rewrites (DistributeOr,     *)
(* EliminateImplication, MoveNegationInwards), skolemize and               *)
(* extract_all_predicates.  src/fol.py is the earlier script: its own      *)
(* skolemize (no Or and no Not case), negate, extract_all_predicates, and  *)
(* a module body that skolemizes one clause while the file is loaded.      *)
(*                                                                         *)
(* A run loads one of the two files (module), starts from one clause       *)
(* (input) and makes calls: clause is the argument of the last call,       *)
(* result what it returned or raised, done the calls made so far.          *)
(* SkolemFunction.counter is the only mutable state of the code; created   *)
(* is the history of the SkolemFunction objects built so far.              *)
(***************************************************************************)
EXTENDS Integers, Sequences, FiniteSets, TLC

VARIABLES module, input, clause, result, done, counter, created

vars == <<module, input, clause, result, done, counter, created>>

(***************************************************************************)
(* Bounds of the model.                                                    *)
(***************************************************************************)
\* Nodes of an input clause tree.
MaxNodes == 4
\* Nodes of an input tree built from Predicate, Not, And and Or only.
MaxPropNodes == 5
\* Calls made in one run.
MaxOps == 2

(***************************************************************************)
(* The clause algebra: src/src/fol.py lines 9-141, src/fol.py lines 7-73.  *)
(***************************************************************************)
\* A str argument of a Predicate.
Str(s) == [kind |-> "str", value |-> s]

\* SkolemFunction.__post_init__: the object built while the class counter is n.
\* The name is the text "F_" followed by the counter in decimal.
SkolemFunction(variables, n) ==
    [kind |-> "SkolemFunction", name |-> "F_" \o ToString(n), variables |-> variables]

\* A counter that is not advanced.
CounterMutant(n) == n
\* SkolemFunction.__post_init__: the counter after the object is built.
CounterAfter(n) == n + 1

Predicate(name, arguments) ==
    [kind |-> "Predicate", name |-> name, arguments |-> arguments]
Not(subordinate) == [kind |-> "Not", subordinate |-> subordinate]
ForAll(variables, subordinate) ==
    [kind |-> "ForAll", variables |-> variables, subordinate |-> subordinate]
ThereExists(variables, subordinate) ==
    [kind |-> "ThereExists", variables |-> variables, subordinate |-> subordinate]
And(left, right) == [kind |-> "And", left |-> left, right |-> right]
Or(left, right) == [kind |-> "Or", left |-> left, right |-> right]
Implies(left, right) == [kind |-> "Implies", left |-> left, right |-> right]

\* The exceptions the code raises, as the value a call ends with.
KeyError == [kind |-> "KeyError"]
NotImplementedException == [kind |-> "NotImplementedException"]
\* A failed assert clause: the clause was None.
AssertionError == [kind |-> "AssertionError"]
\* The bool is_monolithic_or returns.
Bool(b) == [kind |-> "bool", value |-> b]
\* No value: nothing was returned yet.
None == [kind |-> "None"]
\* The tuple extract_all_predicates returns.
Tuple(items) == [kind |-> "tuple", items |-> items]

ClauseKinds == {"Predicate", "Not", "ForAll", "ThereExists", "And", "Or", "Implies"}
UnaryKinds == {"Not", "ForAll", "ThereExists"}
BinaryKinds == {"And", "Or", "Implies"}

IsException(v) ==
    v.kind \in {"KeyError", "NotImplementedException", "AssertionError"}
IsClause(v) == v.kind \in ClauseKinds

\* A node whose children were computed by calls: an exception raised by the
\* left (first) call, or else by the right one, leaves the caller instead of
\* the node.
Raise1(sub, node) == IF IsException(sub) THEN sub ELSE node
Raise2(left, right, node) ==
    IF IsException(left) THEN left
    ELSE IF IsException(right) THEN right ELSE node

Range(s) == {s[i] : i \in 1..Len(s)}

(***************************************************************************)
(* ClauseOperation and its subclasses: src/src/fol.py lines 148-306.       *)
(* self is the chain of operation classes: Head(self) is the class of the  *)
(* object run is called on, Tail(self) the chain its next link starts.     *)
(***************************************************************************)
RECURSIVE run(_, _)
RECURSIVE MoveNegationInwards_handle_not(_, _)

ClauseOperation_handle_and(self, c) ==
    LET l == run(self, c.left)
        r == IF IsException(l) THEN l ELSE run(self, c.right)
    IN Raise2(l, r, And(l, r))

ClauseOperation_handle_or(self, c) ==
    LET l == run(self, c.left)
        r == IF IsException(l) THEN l ELSE run(self, c.right)
    IN Raise2(l, r, Or(l, r))

ClauseOperation_handle_implies(self, c) ==
    LET l == run(self, c.left)
        r == IF IsException(l) THEN l ELSE run(self, c.right)
    IN Raise2(l, r, Implies(l, r))

ClauseOperation_handle_not(self, c) ==
    LET s == run(self, c.subordinate)
    IN Raise1(s, Not(s))

ClauseOperation_handle_for_all(self, c) ==
    LET s == run(self, c.subordinate)
    IN Raise1(s, ForAll(c.variables, s))

ClauseOperation_handle_there_exists(self, c) ==
    LET s == run(self, c.subordinate)
    IN Raise1(s, ThereExists(c.variables, s))

ClauseOperation_handle_predicate(self, c) == Predicate(c.name, c.arguments)

\* set.pop(): an element of the set, KeyError on the empty set.
pop(S) == IF S = {} THEN KeyError ELSE CHOOSE x \in S : TRUE

\* DistributeOr.handle_or.  and_distributed is the one-element list the
\* conditional expression of lines 232-238 builds: [left_distributed] when
\* that is an And, else [right_distributed].  random.choice draws from it;
\* the outcomes of all draws are collected and the call ends with one of them.
DistributeOr_handle_or(self, c) ==
    LET left_distributed == run(self, c.left)
        right_distributed ==
            IF IsException(left_distributed) THEN left_distributed
            ELSE run(self, c.right)
        and_distributed ==
            IF left_distributed.kind = "And" THEN <<left_distributed>>
            ELSE IF right_distributed.kind = "And" THEN <<right_distributed>>
            ELSE <<>>
        Outcome(to_be_distributed) ==
            LET other == pop(Range(and_distributed) \ {to_be_distributed})
            IN IF IsException(other) THEN other
               ELSE LET l == run(self, Or(to_be_distributed.left, other))
                        r == IF IsException(l) THEN l
                             ELSE run(self, Or(to_be_distributed.right, other))
                    IN Raise2(l, r, And(l, r))
        outcomes == {Outcome(and_distributed[i]) : i \in 1..Len(and_distributed)}
    IN IF IsException(left_distributed) THEN left_distributed
       ELSE IF IsException(right_distributed) THEN right_distributed
       ELSE IF left_distributed.kind = "And" \/ right_distributed.kind = "And"
            THEN CHOOSE o \in outcomes : TRUE
            ELSE Or(left_distributed, right_distributed)

\* An EliminateImplication without its override of handle_implies.
EliminateImplicationMutant(self, c) == ClauseOperation_handle_implies(self, c)
\* EliminateImplication.handle_implies.
EliminateImplication_handle_implies(self, c) ==
    LET eliminated_left == run(self, c.left)
        eliminated_right ==
            IF IsException(eliminated_left) THEN eliminated_left
            ELSE run(self, c.right)
    IN Raise2(eliminated_left, eliminated_right,
              Or(Not(eliminated_left), eliminated_right))

MoveNegationInwards_handle_not(self, c) ==
    LET next_clause == c.subordinate
        NegLeft == run(self, Not(next_clause.left))
        NegRight == IF IsException(NegLeft) THEN NegLeft
                    ELSE run(self, Not(next_clause.right))
        NegSub == run(self, Not(next_clause.subordinate))
    IN CASE next_clause.kind = "Predicate" ->
              Predicate(next_clause.name, next_clause.arguments)
         [] next_clause.kind = "ForAll" ->
              Raise1(NegSub, ThereExists(next_clause.variables, NegSub))
         [] next_clause.kind = "ThereExists" ->
              Raise1(NegSub, ForAll(next_clause.variables, NegSub))
         [] next_clause.kind = "Not" -> run(self, next_clause.subordinate)
         [] next_clause.kind = "And" -> Raise2(NegLeft, NegRight, Or(NegLeft, NegRight))
         [] next_clause.kind = "Or" -> Raise2(NegLeft, NegRight, And(NegLeft, NegRight))
         [] next_clause.kind = "Implies" ->
              LET l == run(self, next_clause.left)
                  r == IF IsException(l) THEN l
                       ELSE run(self, Not(next_clause.right))
              IN Raise2(l, r, And(l, r))
         [] OTHER -> NotImplementedException

\* The handler the class of self gives each node kind.
handle_and(self, c) == ClauseOperation_handle_and(self, c)
handle_or(self, c) ==
    IF Head(self) = "DistributeOr" THEN DistributeOr_handle_or(self, c)
    ELSE ClauseOperation_handle_or(self, c)
handle_implies(self, c) ==
    IF Head(self) = "EliminateImplication"
    THEN EliminateImplication_handle_implies(self, c)
    ELSE ClauseOperation_handle_implies(self, c)
handle_not(self, c) ==
    IF Head(self) = "MoveNegationInwards"
    THEN MoveNegationInwards_handle_not(self, c)
    ELSE ClauseOperation_handle_not(self, c)

\* A run that never follows its next link: the handler of the node's kind only.
runMutant(self, c) ==
    CASE c.kind = "And" -> handle_and(self, c)
      [] c.kind = "Or" -> handle_or(self, c)
      [] c.kind = "Implies" -> handle_implies(self, c)
      [] c.kind = "Not" -> handle_not(self, c)
      [] c.kind = "ForAll" -> ClauseOperation_handle_for_all(self, c)
      [] c.kind = "ThereExists" -> ClauseOperation_handle_there_exists(self, c)
      [] c.kind = "Predicate" -> ClauseOperation_handle_predicate(self, c)
      [] OTHER -> NotImplementedException

\* ClauseOperation.run: the handler of the node's kind, then the next
\* operation of the chain, if any, on what the handler returned.
run(self, c) ==
    LET processed_clause ==
            CASE c.kind = "And" -> handle_and(self, c)
              [] c.kind = "Or" -> handle_or(self, c)
              [] c.kind = "Implies" -> handle_implies(self, c)
              [] c.kind = "Not" -> handle_not(self, c)
              [] c.kind = "ForAll" -> ClauseOperation_handle_for_all(self, c)
              [] c.kind = "ThereExists" -> ClauseOperation_handle_there_exists(self, c)
              [] c.kind = "Predicate" -> ClauseOperation_handle_predicate(self, c)
              [] OTHER -> NotImplementedException
    IN IF IsException(processed_clause) THEN processed_clause
       ELSE IF Len(self) > 1 THEN run(Tail(self), processed_clause)
       ELSE processed_clause

(***************************************************************************)
(* skolemize.  The code returns the new clause and counts in the class     *)
(* attribute SkolemFunction.counter; here a call takes and returns the     *)
(* allocator state st = [counter, created] beside the clause.  Keyword     *)
(* arguments are evaluated left to right, so the left subtree allocates    *)
(* before the right one.                                                   *)
(***************************************************************************)
\* The for loop of the Predicate case, src/src/fol.py lines 344-350 and
\* src/fol.py lines 145-151: acc = [new_args, counter, created].
RECURSIVE skolemize_arguments(_, _, _)
skolemize_arguments(arguments, variable_map, acc) ==
    IF arguments = <<>> THEN acc
    ELSE LET i == Head(arguments)
         IN IF i.kind = "str" /\ i.value \in DOMAIN variable_map
            THEN LET f == SkolemFunction(variable_map[i.value], acc.counter)
                 IN skolemize_arguments(Tail(arguments), variable_map,
                        [new_args |-> Append(acc.new_args, f),
                         counter |-> CounterAfter(acc.counter),
                         created |-> Append(acc.created, f)])
            ELSE skolemize_arguments(Tail(arguments), variable_map,
                        [acc EXCEPT !.new_args = Append(acc.new_args, i)])

\* The Predicate case of both skolemize functions.
skolemize_predicate(c, variable_map, st) ==
    LET acc == skolemize_arguments(c.arguments, variable_map,
                   [new_args |-> <<>>, counter |-> st.counter, created |-> st.created])
    IN [clause |-> Predicate(c.name, acc.new_args),
        counter |-> acc.counter, created |-> acc.created]

\* The loop of the ThereExists case: {**new_variable_map, v: universally_quantified_variables}
\* for every v of the binder.
new_variable_map(variable_map, variables, universally_quantified_variables) ==
    [v \in DOMAIN variable_map \cup Range(variables) |->
        IF v \in Range(variables) THEN universally_quantified_variables
        ELSE variable_map[v]]

\* The allocator state a call returned.
StateOf(r) == [counter |-> r.counter, created |-> r.created]

\* src/src/fol.py lines 309-409.
RECURSIVE skolemize(_, _, _, _)
skolemize(c, universally_quantified_variables, variable_map, st) ==
    LET uqv == universally_quantified_variables
        l == skolemize(c.left, uqv, variable_map, st)
        r == IF IsException(l.clause) THEN l
             ELSE skolemize(c.right, uqv, variable_map, StateOf(l))
    IN CASE c.kind = "ThereExists" ->
              skolemize(c.subordinate, uqv,
                        new_variable_map(variable_map, c.variables, uqv), st)
         [] c.kind = "ForAll" ->
              LET s == skolemize(c.subordinate, uqv \o c.variables, variable_map, st)
              IN [s EXCEPT !.clause = Raise1(s.clause, ForAll(c.variables, s.clause))]
         [] c.kind = "Predicate" -> skolemize_predicate(c, variable_map, st)
         [] c.kind = "Implies" ->
              [r EXCEPT !.clause = Raise2(l.clause, r.clause, Implies(l.clause, r.clause))]
         [] c.kind = "And" ->
              [r EXCEPT !.clause = Raise2(l.clause, r.clause, And(l.clause, r.clause))]
         [] c.kind = "Or" ->
              [r EXCEPT !.clause = Raise2(l.clause, r.clause, Or(l.clause, r.clause))]
         [] c.kind = "Not" ->
              LET s == skolemize(c.subordinate, uqv, variable_map, st)
              IN [s EXCEPT !.clause = Raise1(s.clause, Not(s.clause))]
         [] OTHER -> [clause |-> NotImplementedException,
                      counter |-> st.counter, created |-> st.created]

\* src/fol.py lines 80-156: no case for Or and none for Not, which reach the
\* final else and raise.  What was allocated before the raise stays allocated.
RECURSIVE skolemize_draft(_, _, _, _)
skolemize_draft(c, universally_quantified_variables, variable_map, st) ==
    LET uqv == universally_quantified_variables
        l == skolemize_draft(c.left, uqv, variable_map, st)
        r == IF IsException(l.clause) THEN l
             ELSE skolemize_draft(c.right, uqv, variable_map, StateOf(l))
    IN CASE c.kind = "ThereExists" ->
              skolemize_draft(c.subordinate, uqv,
                              new_variable_map(variable_map, c.variables, uqv), st)
         [] c.kind = "ForAll" ->
              LET s == skolemize_draft(c.subordinate, uqv \o c.variables, variable_map, st)
              IN [s EXCEPT !.clause = Raise1(s.clause, ForAll(c.variables, s.clause))]
         [] c.kind = "And" ->
              [r EXCEPT !.clause = Raise2(l.clause, r.clause, And(l.clause, r.clause))]
         [] c.kind = "Implies" ->
              [r EXCEPT !.clause = Raise2(l.clause, r.clause, Implies(l.clause, r.clause))]
         [] c.kind = "Predicate" -> skolemize_predicate(c, variable_map, st)
         [] OTHER -> [clause |-> NotImplementedException,
                      counter |-> st.counter, created |-> st.created]

(***************************************************************************)
(* negate: src/fol.py lines 159-189.                                       *)
(***************************************************************************)
RECURSIVE negate(_)
\* A negate that wraps a conjunction in Not instead of applying De Morgan.
negateMutant(c) ==
    LET l == negate(c.left)
        r == IF IsException(l) THEN l ELSE negate(c.right)
        s == negate(c.subordinate)
        n == negate(c.right)
    IN CASE c.kind = "Predicate" -> Not(c)
         [] c.kind = "Not" -> c.subordinate
         [] c.kind = "And" -> Not(c)
         [] c.kind = "Or" -> Raise2(l, r, And(l, r))
         [] c.kind = "ForAll" -> Raise1(s, ThereExists(c.variables, s))
         [] c.kind = "ThereExists" -> Raise1(s, ForAll(c.variables, s))
         [] c.kind = "Implies" -> Raise1(n, And(c.left, n))
         [] OTHER -> NotImplementedException
\* An exception a recursive call raises leaves the enclosing call; the left
\* operand is negated before the right one.
negate(c) ==
    LET l == negate(c.left)
        r == IF IsException(l) THEN l ELSE negate(c.right)
        s == negate(c.subordinate)
        n == negate(c.right)
    IN CASE c.kind = "Predicate" -> Not(c)
         [] c.kind = "Not" -> c.subordinate
         [] c.kind = "And" -> Raise2(l, r, Or(l, r))
         [] c.kind = "Or" -> Raise2(l, r, And(l, r))
         [] c.kind = "ForAll" -> Raise1(s, ThereExists(c.variables, s))
         [] c.kind = "ThereExists" -> Raise1(s, ForAll(c.variables, s))
         [] c.kind = "Implies" -> Raise1(n, And(c.left, n))
         [] OTHER -> NotImplementedException

(***************************************************************************)
(* extract_all_predicates: src/src/fol.py lines 412-434 (src/fol.py lines  *)
(* 192-216 is the same function).  A call ends with the tuple of leaves,   *)
(* with AssertionError when the clause is None (assert clause), or with    *)
(* NotImplementedException on an object of no clause class.                *)
(***************************************************************************)
RECURSIVE extract_all_predicates(_)
\* An extraction that puts the right subtree's leaves first.
extractMutant(c) ==
    LET l == extract_all_predicates(c.left)
        r == IF IsException(l) THEN l ELSE extract_all_predicates(c.right)
    IN CASE c.kind = "None" -> AssertionError
         [] c.kind = "Predicate" -> Tuple(<<c>>)
         [] c.kind \in {"And", "Or", "Implies"} ->
              Raise2(l, r, Tuple(r.items \o l.items))
         [] c.kind \in {"ThereExists", "ForAll", "Not"} ->
              extract_all_predicates(c.subordinate)
         [] OTHER -> NotImplementedException
extract_all_predicates(c) ==
    LET l == extract_all_predicates(c.left)
        r == IF IsException(l) THEN l ELSE extract_all_predicates(c.right)
    IN CASE c.kind = "None" -> AssertionError
         [] c.kind = "Predicate" -> Tuple(<<c>>)
         [] c.kind \in {"And", "Or", "Implies"} ->
              Raise2(l, r, Tuple(l.items \o r.items))
         [] c.kind \in {"ThereExists", "ForAll", "Not"} ->
              extract_all_predicates(c.subordinate)
         [] OTHER -> NotImplementedException

\* src/src/fol.py lines 445-459.  A call ends with a bool, or with
\* AssertionError when the clause is None (assert clause); the and of the Or
\* case does not evaluate its right operand when the left one is False.
RECURSIVE is_monolithic_or(_)
is_monolithic_or(c) ==
    CASE c.kind = "None" -> AssertionError
      [] c.kind = "Or" ->
           LET l == is_monolithic_or(c.left)
           IN IF IsException(l) THEN l
              ELSE IF ~l.value THEN l
              ELSE is_monolithic_or(c.right)
      [] c.kind = "Not" -> is_monolithic_or(c.subordinate)
      [] c.kind = "Predicate" -> Bool(TRUE)
      [] OTHER -> Bool(FALSE)

(***************************************************************************)
(* The clauses a run starts from.                                          *)
(***************************************************************************)
PA == Predicate("P", <<Str("A")>>)
QB == Predicate("Q", <<Str("B")>>)
RC == Predicate("R", <<Str("C")>>)
\* A predicate over the variables the quantifiers below bind.
SYYZ == Predicate("S", <<Str("Y"), Str("Y"), Str("Z")>>)

PropLeaves == {PA, QB, RC}
Leaves == {PA, SYYZ}
\* The unary node makers: Not, and the quantifiers with their variables.
NotOnly == {[kind |-> "Not", variables |-> <<>>]}
Unaries == NotOnly \cup {[kind |-> "ForAll", variables |-> <<"X">>],
                         [kind |-> "ForAll", variables |-> <<"Z">>],
                         [kind |-> "ThereExists", variables |-> <<"Y">>]}

Unary(u, s) ==
    CASE u.kind = "Not" -> Not(s)
      [] u.kind = "ForAll" -> ForAll(u.variables, s)
      [] u.kind = "ThereExists" -> ThereExists(u.variables, s)
Binary(b, l, r) ==
    CASE b = "And" -> And(l, r)
      [] b = "Or" -> Or(l, r)
      [] b = "Implies" -> Implies(l, r)

\* The trees of exactly n nodes.
RECURSIVE TreesOfSize(_, _, _, _)
TreesOfSize(n, leaves, unaries, binaries) ==
    IF n = 1 THEN leaves
    ELSE {Unary(u, s) : u \in unaries, s \in TreesOfSize(n - 1, leaves, unaries, binaries)}
         \cup UNION {{Binary(b, l, r) : b \in binaries,
                          l \in TreesOfSize(i, leaves, unaries, binaries),
                          r \in TreesOfSize(n - 1 - i, leaves, unaries, binaries)}
                     : i \in 1..(n - 2)}

\* src/fol.py lines 219-228: the clause the script builds, skolemizes and negates.
ScriptClause ==
    ForAll(<<"X">>, ThereExists(<<"Y">>,
        Implies(Predicate("A", <<Str("X")>>), Predicate("B", <<Str("Y")>>))))

\* Clauses beyond the size bounds: an implication of two ground predicates, a
\* universally quantified existential, a disjunction of two conjunctions, and
\* the script's own clause.
Scenarios ==
    {Implies(PA, QB),
     ForAll(<<"X">>, ThereExists(<<"Y">>, Predicate("P", <<Str("X"), Str("Y")>>))),
     Or(And(PA, QB), And(QB, RC)),
     ScriptClause}

Inputs ==
    UNION {TreesOfSize(n, Leaves, Unaries, BinaryKinds) : n \in 1..MaxNodes}
    \cup UNION {TreesOfSize(n, PropLeaves, NotOnly, {"And", "Or"}) : n \in 1..MaxPropNodes}
    \cup Scenarios

(***************************************************************************)
(* The run.                                                                *)
(***************************************************************************)
Library == "src/src/fol.py"
Script == "src/fol.py"

\* src/fol.py line 230: the script skolemizes its clause while it is loaded.
ScriptLoaded == skolemize_draft(ScriptClause, <<>>, <<>>, [counter |-> 0, created |-> <<>>])

Init ==
    /\ module \in {Library, Script}
    /\ input \in Inputs
    /\ clause = input
    /\ result = None
    /\ done = <<>>
    /\ counter = IF module = Script THEN ScriptLoaded.counter ELSE 0
    /\ created = IF module = Script THEN ScriptLoaded.created ELSE <<>>

\* The clause the next call is given: what the last call returned when that
\* is a clause, else the clause the caller still holds.
Argument == IF IsClause(result) THEN result ELSE clause

\* A call of op.run on the clause, op built with the chain self.
Run(self) ==
    /\ module = Library
    /\ Len(done) < MaxOps
    /\ clause' = Argument
    /\ result' = run(self, Argument)
    /\ done' = Append(done, self)
    /\ UNCHANGED <<module, input, counter, created>>

RunDistributeOr == Run(<<"DistributeOr">>)
RunEliminateImplication == Run(<<"EliminateImplication">>)
RunMoveNegationInwards == Run(<<"MoveNegationInwards">>)
\* EliminateImplication(next=MoveNegationInwards()).run
RunChained == Run(<<"EliminateImplication", "MoveNegationInwards">>)

\* skolemize(clause, (), {}) of the loaded file.
Skolemized(c, st) ==
    IF module = Library THEN skolemize(c, <<>>, <<>>, st)
    ELSE skolemize_draft(c, <<>>, <<>>, st)

Skolemize ==
    /\ Len(done) < MaxOps
    /\ LET r == Skolemized(Argument, [counter |-> counter, created |-> created])
       IN /\ result' = r.clause
          /\ counter' = r.counter
          /\ created' = r.created
    /\ clause' = Argument
    /\ done' = Append(done, <<"skolemize">>)
    /\ UNCHANGED <<module, input>>

Negate ==
    /\ module = Script
    /\ Len(done) < MaxOps
    /\ clause' = Argument
    /\ result' = negate(Argument)
    /\ done' = Append(done, <<"negate">>)
    /\ UNCHANGED <<module, input, counter, created>>

ExtractAllPredicates ==
    /\ Len(done) < MaxOps
    /\ clause' = Argument
    /\ result' = extract_all_predicates(Argument)
    /\ done' = Append(done, <<"extract_all_predicates">>)
    /\ UNCHANGED <<module, input, counter, created>>

\* SkolemFunction(variables=...) called directly; done records the variables asked for.
NewSkolemFunction ==
    /\ Len(done) < MaxOps
    /\ \E variables \in {<<>>, <<"X">>} :
          LET f == SkolemFunction(variables, counter)
          IN /\ result' = f
             /\ created' = Append(created, f)
             /\ done' = Append(done, <<"SkolemFunction">> \o variables)
    /\ counter' = CounterAfter(counter)
    /\ clause' = Argument
    /\ UNCHANGED <<module, input>>

Next ==
    \/ RunDistributeOr
    \/ RunEliminateImplication
    \/ RunMoveNegationInwards
    \/ RunChained
    \/ Skolemize
    \/ Negate
    \/ ExtractAllPredicates
    \/ NewSkolemFunction

Spec == Init /\ [][Next]_vars

(***************************************************************************)
(* Vocabulary of the properties.                                           *)
(***************************************************************************)
\* The last call made was this one.
Called(call) == Len(done) > 0 /\ done[Len(done)] = call
Returned == IsClause(result)

DistributeOr == <<"DistributeOr">>
MoveNegationInwards == <<"MoveNegationInwards">>

RECURSIVE HasKind(_, _)
\* Some node of the tree is of one of the kinds.
HasKind(c, kinds) ==
    \/ c.kind \in kinds
    \/ c.kind \in UnaryKinds /\ HasKind(c.subordinate, kinds)
    \/ c.kind \in BinaryKinds /\ (HasKind(c.left, kinds) \/ HasKind(c.right, kinds))

RECURSIVE NotOnlyOnPredicates(_)
\* Every Not node's child is a Predicate.
NotOnlyOnPredicates(c) ==
    CASE c.kind = "Predicate" -> TRUE
      [] c.kind = "Not" -> c.subordinate.kind = "Predicate"
      [] c.kind \in {"ForAll", "ThereExists"} -> NotOnlyOnPredicates(c.subordinate)
      [] c.kind \in BinaryKinds ->
           NotOnlyOnPredicates(c.left) /\ NotOnlyOnPredicates(c.right)

RECURSIVE NoOrAboveAnd(_)
\* No Or node has an And node below it.
NoOrAboveAnd(c) ==
    CASE c.kind = "Predicate" -> TRUE
      [] c.kind = "Or" -> ~HasKind(c.left, {"And"}) /\ ~HasKind(c.right, {"And"})
      [] c.kind \in UnaryKinds -> NoOrAboveAnd(c.subordinate)
      [] c.kind \in {"And", "Implies"} -> NoOrAboveAnd(c.left) /\ NoOrAboveAnd(c.right)

RECURSIVE Eval(_, _)
\* The truth value of a tree when exactly the predicates of true are true;
\* a quantifier has the value of its body.
Eval(c, true) ==
    CASE c.kind = "Predicate" -> c \in true
      [] c.kind = "Not" -> ~Eval(c.subordinate, true)
      [] c.kind \in {"ForAll", "ThereExists"} -> Eval(c.subordinate, true)
      [] c.kind = "And" -> Eval(c.left, true) /\ Eval(c.right, true)
      [] c.kind = "Or" -> Eval(c.left, true) \/ Eval(c.right, true)
      [] c.kind = "Implies" -> Eval(c.left, true) => Eval(c.right, true)

\* Two trees have the same truth value under every truth assignment.
Equivalent(c, d) ==
    \A true \in SUBSET (Range(extract_all_predicates(c).items) \cup Range(extract_all_predicates(d).items)) :
        Eval(c, true) <=> Eval(d, true)

RECURSIVE Binders(_, _)
\* The quantifier nodes of a tree, each with the variables of the ForAll
\* nodes enclosing it, in document order.
Binders(c, scope) ==
    CASE c.kind = "Predicate" -> <<>>
      [] c.kind = "Not" -> Binders(c.subordinate, scope)
      [] c.kind = "ForAll" ->
           <<[kind |-> "ForAll", variables |-> c.variables, scope |-> scope]>>
           \o Binders(c.subordinate, scope \o c.variables)
      [] c.kind = "ThereExists" ->
           <<[kind |-> "ThereExists", variables |-> c.variables, scope |-> scope]>>
           \o Binders(c.subordinate, scope)
      [] c.kind \in BinaryKinds -> Binders(c.left, scope) \o Binders(c.right, scope)

RECURSIVE Flatten(_)
Flatten(ss) == IF ss = <<>> THEN <<>> ELSE Head(ss) \o Flatten(Tail(ss))

\* The variables the quantifiers of a tree bind, binder by binder.
BoundVariables(c) ==
    LET b == Binders(c, <<>>) IN Flatten([i \in 1..Len(b) |-> b[i].variables])

\* No variable is bound twice: the precondition of skolemize.
UniquelyNamed(c) ==
    LET v == BoundVariables(c)
    IN \A i, j \in 1..Len(v) : v[i] = v[j] => i = j

\* The occurrences of arguments in a tree: leaf k, argument i.
Occurrences(leaves) ==
    {<<k, i>> : k \in 1..Len(leaves), i \in 1..3} \cap
    {o \in (1..Len(leaves)) \X (1..3) : o[2] <= Len(leaves[o[1]].arguments)}

\* skolemize was called on a clause of uniquely named bound variables and returned.
SkolemizeReturned ==
    Called(<<"skolemize">>) /\ Returned /\ UniquelyNamed(clause)

\* The occurrences skolemize substituted: a str before, a SkolemFunction after.
Substituted ==
    LET before == extract_all_predicates(clause).items
        after == extract_all_predicates(result).items
    IN {o \in Occurrences(before) :
            /\ before[o[1]].arguments[o[2]].kind = "str"
            /\ after[o[1]].arguments[o[2]].kind = "SkolemFunction"}

(***************************************************************************)
(* C1.  skolemize(clause, (), {}) of a clause whose bound variables are    *)
(* uniquely named gives all substituted occurrences of one existentially   *)
(* bound variable the same Skolem name: one allocation per binder.         *)
(* The code allocates at every occurrence.                                 *)
(***************************************************************************)
C1_OneSkolemTermPerBinder ==
    SkolemizeReturned =>
        LET before == extract_all_predicates(clause).items
            after == extract_all_predicates(result).items
        IN \A o, q \in Substituted :
              before[o[1]].arguments[o[2]] = before[q[1]].arguments[q[2]]
              => after[o[1]].arguments[o[2]].name = after[q[1]].arguments[q[2]].name

(***************************************************************************)
(* C2.  DistributeOr.run on Or(l, r), where exactly one of distributed l   *)
(* and distributed r is an And (conj) and the other (other) is not,        *)
(* returns And(Or(conj.left, other), Or(conj.right, other)) with each      *)
(* branch distributed again; Or(And(P(A),Q(B)), R(C)) gives                *)
(* And(Or(P(A),R(C)), Or(Q(B),R(C))).  The code raises KeyError.           *)
(***************************************************************************)
C2_DistributesTheOneConjunction ==
    (Called(DistributeOr) /\ clause.kind = "Or") =>
        LET l == run(DistributeOr, clause.left)
            r == run(DistributeOr, clause.right)
            conj == IF l.kind = "And" THEN l ELSE r
            other == IF l.kind = "And" THEN r ELSE l
        IN /\ (IsClause(l) /\ IsClause(r) /\ ((l.kind = "And") # (r.kind = "And")))
              => result = And(run(DistributeOr, Or(conj.left, other)),
                              run(DistributeOr, Or(conj.right, other)))
           /\ clause = Or(And(PA, QB), RC) => result = And(Or(PA, RC), Or(QB, RC))

\* The input is built from Predicate, Not, And and Or.
Propositional(c) == ~HasKind(c, {"ForAll", "ThereExists", "Implies"})

(***************************************************************************)
(* C3.  For every tree built from Predicate, Not, And and Or,              *)
(* DistributeOr.run returns a tree in which no Or node has an And node     *)
(* below it.                                                               *)
(***************************************************************************)
C3_NoOrAboveAndRemains ==
    (Called(DistributeOr) /\ Propositional(clause)) =>
        Returned /\ NoOrAboveAnd(result)

(***************************************************************************)
(* C4.  MoveNegationInwards.run keeps a negated leaf negated (Not(p) stays *)
(* Not(p)), turns Not(And(l, r)) into the Or of the negations              *)
(* (Not(And(P(A),Q(B))) gives Or(Not(P(A)), Not(Q(B)))), and so on an      *)
(* Implies-free tree returns a tree of the same truth value under every    *)
(* truth assignment.  The code drops the Not of a negated leaf.            *)
(***************************************************************************)
C4_NegationPushdownEquivalent ==
    (Called(MoveNegationInwards) /\ ~HasKind(clause, {"Implies"})) =>
        /\ Returned
        /\ (clause.kind = "Not" /\ clause.subordinate.kind = "Predicate")
           => result = clause
        /\ clause = Not(And(PA, QB)) => result = Or(Not(PA), Not(QB))
        /\ Equivalent(clause, result)

(***************************************************************************)
(* C5.  EliminateImplication.run and then MoveNegationInwards.run, on any  *)
(* clause tree, give a tree with no Implies node in which every Not        *)
(* node's child is a Predicate.                                            *)
(***************************************************************************)
C5_NegationNormalForm ==
    done = <<<<"EliminateImplication">>, MoveNegationInwards>> =>
        /\ Returned
        /\ ~HasKind(result, {"Implies"})
        /\ NotOnlyOnPredicates(result)

\* C5's case: the input holds an Implies and a Not above something that is
\* no Predicate, and both operations have run.
C5_Witness ==
    /\ done = <<<<"EliminateImplication">>, MoveNegationInwards>>
    /\ HasKind(input, {"Implies"})
    /\ ~NotOnlyOnPredicates(input)
    /\ Returned

\* The binder of each existentially bound variable of the clause skolemize was given.
ExistentialBinders ==
    {b \in Range(Binders(clause, <<>>)) : b.kind = "ThereExists"}

\* The ForAll nodes of a tree with their variables, in document order.
ForAllNodes(c) ==
    SelectSeq(Binders(c, <<>>), LAMBDA b : b.kind = "ForAll")

(***************************************************************************)
(* C6.  skolemize(clause, (), {}) of a clause over the seven node kinds    *)
(* whose bound variables are uniquely named returns a tree with no         *)
(* ThereExists node, with every ForAll node and its variables kept, and    *)
(* every Skolem term captures exactly the variables of the ForAll nodes    *)
(* enclosing the ThereExists binder it replaces, in binding order.         *)
(* skolemize of src/fol.py raises on Or and on Not.                        *)
(***************************************************************************)
C6_SkolemizedShape ==
    (Called(<<"skolemize">>) /\ UniquelyNamed(clause)) =>
        /\ Returned
        /\ ~HasKind(result, {"ThereExists"})
        /\ ForAllNodes(result) = ForAllNodes(clause)
        /\ LET before == extract_all_predicates(clause).items
               after == extract_all_predicates(result).items
           IN \A o \in Substituted :
                 \E b \in ExistentialBinders :
                    /\ before[o[1]].arguments[o[2]].value \in Range(b.variables)
                    /\ after[o[1]].arguments[o[2]].variables = b.scope

\* What C6 states, of skolemize of src/src/fol.py alone.
LibrarySkolemizedShape == module = Library => C6_SkolemizedShape

(***************************************************************************)
(* C7.  DistributeOr.run preserves propositional equivalence: for every    *)
(* tree built from Predicate, Not, And and Or the tree it returns has the  *)
(* truth value of the input under every truth assignment to the            *)
(* predicates.                                                             *)
(***************************************************************************)
C7_DistributionPreservesTruth ==
    (Called(DistributeOr) /\ Propositional(clause)) =>
        Returned /\ Equivalent(clause, result)

\* The number a Skolem name carries: the n with name = "F_<n>".
IdOf(f) == CHOOSE n \in 0..(counter + Len(created)) : f.name = "F_" \o ToString(n)

AllocationOrder ==
    /\ \A i \in 1..Len(created) :
          /\ created[i].kind = "SkolemFunction"
          /\ \E n \in 0..(counter - 1) : created[i].name = "F_" \o ToString(n)
    /\ \A i, j \in 1..Len(created) :
          /\ i < j => IdOf(created[i]) < IdOf(created[j])
          /\ created[i].name = created[j].name => i = j
          /\ created[i] = created[j] => i = j
    /\ (Len(done) > 0 /\ done[Len(done)][1] = "SkolemFunction") =>
          /\ result = created[Len(created)]
          /\ result.variables = Tail(done[Len(done)])

(***************************************************************************)
(* C8.  Every new SkolemFunction, created directly or by skolemize, gets   *)
(* an identity greater than all earlier ones and stores the variables it   *)
(* was given; the counter never decreases; no two Skolem terms share a     *)
(* name, and two are equal only if they are the same allocation.           *)
(***************************************************************************)
C8_FreshSkolemIdentities ==
    [](AllocationOrder) /\ [][counter' >= counter]_vars

\* C8's case: allocations by skolemize followed by a direct one.
C8_Witness ==
    /\ done = <<<<"skolemize">>, <<"SkolemFunction", "X">>>>
    /\ Len(created) >= 3

RECURSIVE LeafPaths(_)
\* The paths from the root to the Predicate leaves.
LeafPaths(c) ==
    CASE c.kind = "Predicate" -> {<<>>}
      [] c.kind \in UnaryKinds ->
           {<<"subordinate">> \o p : p \in LeafPaths(c.subordinate)}
      [] c.kind \in BinaryKinds ->
           {<<"left">> \o p : p \in LeafPaths(c.left)}
           \cup {<<"right">> \o p : p \in LeafPaths(c.right)}

RECURSIVE NodeAt(_, _)
NodeAt(c, p) == IF p = <<>> THEN c ELSE NodeAt(c[Head(p)], Tail(p))

\* Leaf p is to the left of leaf q.
LeftOf(p, q) ==
    \E i \in 1..Len(p) :
        /\ i <= Len(q)
        /\ p[i] = "left" /\ q[i] = "right"
        /\ \A j \in 1..(i - 1) : p[j] = q[j]

LeavesLeftToRight ==
    Called(<<"extract_all_predicates">>) =>
        /\ result.kind = "tuple"
        /\ Len(result.items) = Cardinality(LeafPaths(clause))
        /\ \A p \in LeafPaths(clause) :
              result.items[1 + Cardinality({q \in LeafPaths(clause) : LeftOf(q, p)})]
                  = NodeAt(clause, p)

(***************************************************************************)
(* C9.  extract_all_predicates returns exactly the Predicate leaves of the *)
(* tree, once per occurrence, from left to right, and leaves the tree and  *)
(* the Skolem counter as they were.                                        *)
(***************************************************************************)
C9_ExtractsLeavesInOrder ==
    /\ [](LeavesLeftToRight)
    /\ [][done' = Append(done, <<"extract_all_predicates">>)
            => (clause' = Argument /\ counter' = counter /\ created' = created)]_vars

\* C9's case: a tree with a unary node and two different leaves was extracted.
C9_Witness ==
    /\ Called(<<"extract_all_predicates">>)
    /\ HasKind(clause, UnaryKinds)
    /\ Len(result.items) >= 3
    /\ result.items[1] # result.items[2]

\* negate was called on an Implies-free clause.
NegateCalled == Called(<<"negate">>) /\ ~HasKind(clause, {"Implies"})

(***************************************************************************)
(* C10 as stated: for every Implies-free clause c, no Not node of          *)
(* negate(c) has a child that is not a Predicate.                          *)
(***************************************************************************)
C10_Original ==
    NegateCalled => NotOnlyOnPredicates(result)

(***************************************************************************)
(* C10, amended: for every Implies-free clause c in which every Not        *)
(* node's child is a Predicate, no Not node of negate(c) has a child that  *)
(* is not a Predicate.                                                     *)
(***************************************************************************)
C10_NegateKeepsNotOnPredicates ==
    (NegateCalled /\ NotOnlyOnPredicates(clause)) => NotOnlyOnPredicates(result)

\* C10's case: negate ran on a clause with negated and unnegated leaves
\* below binary nodes.
C10_Witness ==
    /\ NegateCalled
    /\ NotOnlyOnPredicates(clause)
    /\ HasKind(clause, {"Not"})
    /\ HasKind(clause, {"And", "Or"})
    /\ HasKind(result, {"Not"})
    /\ HasKind(clause, {"ForAll", "ThereExists"})

\* EliminateImplication(next=MoveNegationInwards()), as the chain run is given.
Chained == <<"EliminateImplication", "MoveNegationInwards">>

\* MoveNegationInwards().run(EliminateImplication().run(c)).
Composed(c) == run(MoveNegationInwards, run(<<"EliminateImplication">>, c))

(***************************************************************************)
(* C11.  Chaining through the next link is sequential composition: for     *)
(* every clause tree c, EliminateImplication(next=MoveNegationInwards())   *)
(* .run(c) returns a tree structurally equal to MoveNegationInwards().run( *)
(* EliminateImplication().run(c)), although run applies the next operation *)
(* to each processed subtree and not once to the final result.  Stated on  *)
(* both routes of a run: the chained call returns what the composition     *)
(* gives on its argument, and the two separate calls made one after the    *)
(* other on the input end with what the chained call gives on the input.   *)
(***************************************************************************)
C11_ChainEqualsComposition ==
    /\ Called(Chained) =>
          /\ Returned
          /\ result = Composed(clause)
    /\ done = <<<<"EliminateImplication">>, MoveNegationInwards>> =>
          /\ Returned
          /\ result = run(Chained, input)

\* C11's case: the chained call ran on a tree with an Implies below a Not or
\* a binary node, so the next operation met a processed subtree before the
\* root, and it changed what EliminateImplication alone returns.
C11_Witness ==
    /\ Called(Chained)
    /\ Returned
    /\ clause.kind \in {"Not", "And", "Or", "Implies"}
    /\ clause.kind # "Implies" => HasKind(clause, {"Implies"})
    /\ HasKind(clause, {"Not"})
    /\ result # run(<<"EliminateImplication">>, clause)

====
